---- MODULE Spec2Model ----
(***************************************************************************)
(* GitHub PR Scheduler (ritaban06/github-auto-pr).                         *)
(*                                                                         *)
(* A model of AutoPRScheduler.py: the in-memory registry of scheduled pull *)
(* requests (AppState), the Tk "after" timer queue, the JSON config file   *)
(* (ConfigManager), the pull-request creation wrapper (PRManager) and the  *)
(* scheduler operations (PRScheduler) with the UI handlers that call them. *)
(*                                                                         *)
(* Time is counted in ticks; TicksPerMs ticks make one millisecond, so a   *)
(* datetime difference need not be a whole number of milliseconds.  Every  *)
(* handler runs to completion on the single Tk thread and is one action.   *)
(* Text values are strings; a datetime is an integer tick count.           *)
(***************************************************************************)
EXTENDS Integers, Sequences, FiniteSets, TLC

VARIABLES
    scheduled_prs,   \* app_state.scheduled_prs : pr_id -> details
    next_pr_id,      \* app_state.next_pr_id
    history,         \* app_state.history : field -> list of values
    timers,          \* Tk after-queue : handle -> [due, req, pr_id]
    after_seq,       \* Tk's counter behind the "after#N" handles
    config_file,     \* content of CONFIG_FILE on disk
    now,             \* datetime.now(), in ticks
    attempts,        \* pr_id -> number of create_pr calls made by its timer
    issued,          \* ids returned by schedule_pr so far, in order
    cancelled,       \* ids whose cancel succeeded before any attempt
    last_saved,      \* what the latest save_config call was asked to save
    form,            \* the entry widgets of the window: field -> text typed
    disk_ok,         \* whether CONFIG_FILE can be opened right now
    legacy,          \* the process of the legacy script main.py
    lastOp           \* the handler that ran last, its inputs and its result

vars == <<scheduled_prs, next_pr_id, history, timers, after_seq, config_file,
          now, attempts, issued, cancelled, last_saved, form, disk_ok,
          legacy, lastOp>>

---------------------------------------------------------------------------
(* Bounds of the model *)

MaxId == 3          \* schedule_pr is not called once next_pr_id exceeds this
MaxTime == 2        \* the clock stops advancing here; datetimes are 0..MaxTime
TicksPerMs == 2     \* clock resolution: ticks per millisecond
MaxUiId == 1        \* ids scheduled while the form handlers are explored
MaxSaveId == 2      \* ids scheduled while the disk may fail
MaxLiveId == 2      \* ids scheduled while progress of the timers is explored
MaxTasks == 2       \* tasks scheduled in one process of the legacy script

(* Program constants *)

MAX_HISTORY_ENTRIES == 10

HistoryFields == {"repos", "usernames", "branches", "titles"}

\* a scheduler that was never handed the window: no timer can be armed
gui_instance_unset == FALSE

\* PRScheduler.gui_instance, set by GUI.__init__ before any handler can run
gui_instance == TRUE

None == "None"

Times == 0..MaxTime
Ids == 1..MaxId

\* The requests callers of PRScheduler.schedule_pr pass; they differ in every
\* field.
Requests ==
    { [git_repo_path |-> "/w/a", repo |-> "org/a", head |-> "me:fix",
       base |-> "main", title |-> "Fix bug", body |-> ""],
      [git_repo_path |-> "/w/b", repo |-> "org/b", head |-> "you:feat",
       base |-> "dev", title |-> "Add feature", body |-> "text"] }

\* What can happen inside PRManager.create_pr, decided by the file system,
\* the gh tool and the operating system at the moment of the call.
Outcomes == {"success", "remote_failure", "invalid_path", "no_git", "exception"}

---------------------------------------------------------------------------
(* Small helpers *)

Remove(f, k) == [x \in DOMAIN f \ {k} |-> f[x]]

Put(f, k, v) == [x \in DOMAIN f \cup {k} |-> IF x = k THEN v ELSE f[x]]

EmptyMap == [x \in {} |-> None]

EmptyHistory == [f \in HistoryFields |-> <<>>]

\* tk.StringVar() and an empty tk.Text
EmptyForm == [entry_repo_path |-> "", entry_repo |-> "", entry_fork_user |-> "",
              entry_fork_branch |-> "", entry_base |-> "", entry_title |-> "",
              entry_body |-> ""]

Handle(n) == "after#" \o ToString(n)

IsDatetime(t) == t \in Int

Msg(kind, title, fields) == [kind |-> kind, title |-> title, fields |-> fields]

---------------------------------------------------------------------------
(* The application state a handler works on.  trace fields (msgs, saves,   *)
(* calls) collect what the handler did and start empty in every handler.   *)

St == [scheduled_prs |-> scheduled_prs,
       next_pr_id    |-> next_pr_id,
       history       |-> history,
       timers        |-> timers,
       after_seq     |-> after_seq,
       config_file   |-> config_file,
       last_saved    |-> last_saved,
       disk_ok       |-> disk_ok,
       msgs          |-> <<>>,
       saves         |-> 0,
       calls         |-> <<>>]

Snapshot(st) == [scheduled_prs |-> st.scheduled_prs,
                 next_pr_id    |-> st.next_pr_id,
                 history       |-> st.history]

---------------------------------------------------------------------------
(* ConfigManager *)

\* json.dump raises TypeError on a datetime: a record stored by schedule_pr
\* holds one under "time".
JsonSerializable(prs) == \A k \in DOMAIN prs : ~IsDatetime(prs[k].time)

\* json.dump writes object keys as strings.
JsonKeys(prs) ==
    [s \in {ToString(k) : k \in DOMAIN prs} |->
        prs[CHOOSE k \in DOMAIN prs : ToString(k) = s]]

JsonDoc(st) == [scheduled_prs |-> JsonKeys(st.scheduled_prs),
                next_pr_id    |-> st.next_pr_id,
                history       |-> st.history]

NoDoc == [scheduled_prs |-> EmptyMap, next_pr_id |-> 0, history |-> EmptyHistory]

MissingFile == [kind |-> "missing", doc |-> NoDoc]

\* save_config, but a failed save also empties the registry in memory
save_config_resetting(st) ==
    LET base == [st EXCEPT !.saves = @ + 1,
                           !.last_saved = [valid |-> TRUE, data |-> Snapshot(st)]]
        warned == [base EXCEPT !.scheduled_prs = EmptyMap,
                               !.msgs = Append(@, Msg("showwarning",
                                               "Save Configuration Error", <<>>))]
    IN IF ~st.disk_ok THEN warned
       ELSE IF JsonSerializable(st.scheduled_prs)
       THEN [base EXCEPT !.config_file = [kind |-> "json", doc |-> JsonDoc(st)]]
       ELSE [warned EXCEPT !.config_file = [kind |-> "partial", doc |-> NoDoc]]

\* open(CONFIG_FILE, 'w') truncates the file; json.dump then writes chunk by
\* chunk, so a dump that raises leaves an unfinished document behind.
save_config(st) ==
    LET base == [st EXCEPT !.saves = @ + 1,
                           !.last_saved = [valid |-> TRUE, data |-> Snapshot(st)]]
    IN IF ~st.disk_ok
       THEN \* mkdir or open raises: the file is left as it was
            [base EXCEPT !.msgs = Append(@, Msg("showwarning",
                                               "Save Configuration Error", <<>>))]
       ELSE IF JsonSerializable(st.scheduled_prs)
       THEN [base EXCEPT !.config_file = [kind |-> "json", doc |-> JsonDoc(st)]]
       ELSE [base EXCEPT !.config_file = [kind |-> "partial", doc |-> NoDoc],
                         !.msgs = Append(@, Msg("showwarning",
                                               "Save Configuration Error", <<>>))]

\* load_config, but a file that exists is used whether or not it parses
load_config_unguarded(st) ==
    IF st.config_file.kind = "missing" THEN st
    ELSE [st EXCEPT !.scheduled_prs = st.config_file.doc.scheduled_prs,
                    !.next_pr_id    = st.config_file.doc.next_pr_id,
                    !.history       = st.config_file.doc.history]

\* load_config starts from whatever app_state holds (AppState() defaults at
\* start-up) and replaces it only when the file exists and parses.
load_config(st) ==
    IF st.config_file.kind = "missing" THEN st
    ELSE IF st.disk_ok /\ st.config_file.kind = "json"
    THEN [st EXCEPT !.scheduled_prs = st.config_file.doc.scheduled_prs,
                    !.next_pr_id    = st.config_file.doc.next_pr_id,
                    !.history       = st.config_file.doc.history]
    ELSE [st EXCEPT !.msgs = Append(@, Msg("showwarning",
                                          "Configuration Warning", <<>>))]

InList(v, lst) == \E i \in 1..Len(lst) : lst[i] = v

TrimNever(lst) == lst

\* lines 94-95: pop() the last entry of a list that has grown past the limit
Trim(lst) == IF Len(lst) > MAX_HISTORY_ENTRIES
             THEN SubSeq(lst, 1, Len(lst) - 1) ELSE lst

update_history(st, field, value) ==
    IF field \in DOMAIN st.history /\ value # "" /\ ~InList(value, st.history[field])
    THEN save_config([st EXCEPT !.history[field] =
                                    Trim(<<value>> \o st.history[field])])
    ELSE st

---------------------------------------------------------------------------
(* PRManager *)

NoId == 0    \* pr_id=None

DefaultPrIdFirst == NoId + 1

\* the pr_id create_pr gets from a caller that passes none
DefaultPrId == NoId

Call(req, pr_id, outcome, gh) ==
    [req |-> req, pr_id |-> pr_id, outcome |-> outcome, gh |-> gh]

\* the path test without its .git part
IsRepositoryAnyDir(outcome) == outcome # "invalid_path"

\* repo_path.exists() and (repo_path / '.git').exists(), as the file system
\* answers at the moment of the call
IsRepository(outcome) == outcome \notin {"invalid_path", "no_git"}

\* create_pr returns [st, ret]; outcome is what the environment does: the
\* path is missing, the path holds no .git, os.chdir or the launch of the
\* command raises, or the command runs and exits with zero or non-zero.
create_pr(st, req, pr_id, outcome) ==
    IF ~IsRepository(outcome)
    THEN [st  |-> [st EXCEPT !.calls = Append(@, Call(req, pr_id, outcome, FALSE)),
                             !.msgs = Append(@, Msg("showerror",
                                                    "Repository Error", <<>>))],
          ret |-> FALSE]
    ELSE IF outcome = "exception"
    THEN [st  |-> [st EXCEPT !.calls = Append(@, Call(req, pr_id, outcome, FALSE)),
                             !.msgs = Append(@, Msg("showerror",
                                                    "System Error", <<>>))],
          ret |-> FALSE]
    ELSE LET called == [st EXCEPT !.calls = Append(@, Call(req, pr_id, outcome, TRUE))]
         IN IF outcome = "success"
            THEN LET shown == [called EXCEPT !.msgs = Append(@, Msg("showinfo",
                                                             "Success", <<>>))]
                 IN [st  |-> IF pr_id # NoId /\ pr_id \in DOMAIN shown.scheduled_prs
                             THEN save_config([shown EXCEPT !.scheduled_prs =
                                                  Remove(@, pr_id)])
                             ELSE shown,
                     ret |-> TRUE]
            ELSE [st  |-> [called EXCEPT !.msgs = Append(@, Msg("showerror",
                                                      "PR Creation Error", <<>>))],
                  ret |-> FALSE]

---------------------------------------------------------------------------
(* PRScheduler *)

InFutureAtOrAfter(delay) == delay >= 0

\* the test of line 218, negated: the delay passes when it is positive
InFuture(delay) == delay > 0

NextIdStuck(n) == n

NextIdAfter(n) == n + 1

\* int(delay * 1000): whole milliseconds of a delay given in ticks
DelayMs(delay) == delay \div TicksPerMs

\* a timer that stays armed after its callback ran
ExpireRepeating(tm, h) == tm

\* a root.after timer is one-shot: its handle is spent once the callback runs
Expire(tm, h) == Remove(tm, h)

\* root.after whose callback ends up bound to the oldest pending record
after_misbound(st, ms, t, req, pr_id) ==
    [st EXCEPT !.timers = Put(@, Handle(st.after_seq),
                              [due |-> t + ms * TicksPerMs, req |-> req,
                               pr_id |-> CHOOSE i \in DOMAIN st.scheduled_prs :
                                   \A j \in DOMAIN st.scheduled_prs : i <= j]),
               !.after_seq = @ + 1]

\* root.after(ms, callback): a new handle, due ms milliseconds from t
after(st, ms, t, req, pr_id) ==
    [st EXCEPT !.timers = Put(@, Handle(st.after_seq),
                              [due |-> t + ms * TicksPerMs, req |-> req,
                               pr_id |-> pr_id]),
               !.after_seq = @ + 1]

Details(req, when, job) ==
    [repo |-> req.repo, head |-> req.head, base |-> req.base,
     title |-> req.title, body |-> req.body, time |-> when,
     git_repo_path |-> req.git_repo_path, job |-> job]

\* schedule_pr that takes an id from the counter before it tests the delay
schedule_pr_counting(st, req, schedule_datetime, t) ==
    LET delay == schedule_datetime - t
    IN IF ~InFuture(delay)
       THEN [st  |-> [st EXCEPT !.next_pr_id = NextIdAfter(@),
                                !.msgs = Append(@, Msg("showerror",
                                               "Scheduling Error", <<>>))],
             ret |-> NoId]
       ELSE LET pr_id  == st.next_pr_id
                stored == [st EXCEPT !.next_pr_id = NextIdAfter(pr_id),
                                     !.scheduled_prs = Put(@, pr_id,
                                         Details(req, schedule_datetime, None))]
                armed  == IF gui_instance
                          THEN [after(stored, DelayMs(delay), t, req, pr_id)
                                   EXCEPT !.scheduled_prs[pr_id].job =
                                              Handle(stored.after_seq)]
                          ELSE stored
                saved  == save_config(armed)
            IN [st  |-> [saved EXCEPT !.msgs = Append(@, Msg("showinfo",
                                                  "Scheduling Success", <<>>))],
                ret |-> pr_id]

\* PRScheduler.schedule_pr returns [st, ret]; ret is the new id or NoId
schedule_pr(st, req, schedule_datetime, t) ==
    LET delay == schedule_datetime - t
    IN IF ~InFuture(delay)
       THEN [st  |-> [st EXCEPT !.msgs = Append(@, Msg("showerror",
                                               "Scheduling Error", <<>>))],
             ret |-> NoId]
       ELSE LET pr_id  == st.next_pr_id
                stored == [st EXCEPT !.next_pr_id = NextIdAfter(pr_id),
                                     !.scheduled_prs = Put(@, pr_id,
                                         Details(req, schedule_datetime, None))]
                armed  == IF gui_instance
                          THEN [after(stored, DelayMs(delay), t, req, pr_id)
                                   EXCEPT !.scheduled_prs[pr_id].job =
                                              Handle(stored.after_seq)]
                          ELSE stored
                saved  == save_config(armed)
            IN [st  |-> [saved EXCEPT !.msgs = Append(@, Msg("showinfo",
                                                  "Scheduling Success", <<>>))],
                ret |-> pr_id]

\* a test that finds no handle on any record
HasJobNever(job) == FALSE

\* app_state.scheduled_prs[pr_id].get("job"): the record holds a handle
HasJob(job) == job # None

after_cancel_noop(tm, h) == tm

\* root.after_cancel(handle): nothing happens for a handle that already fired
after_cancel(tm, h) == IF h \in DOMAIN tm THEN Remove(tm, h) ELSE tm

DelKeep(prs, pr_id) == prs

\* del app_state.scheduled_prs[pr_id]
Del(prs, pr_id) == Remove(prs, pr_id)

\* cancel_scheduled_pr without its save_config call
cancel_scheduled_pr_unsaved(st, pr_id) ==
    IF pr_id \notin DOMAIN st.scheduled_prs
    THEN [st |-> st, ret |-> FALSE]
    ELSE LET job      == st.scheduled_prs[pr_id].job
             disarmed == IF HasJob(job) /\ gui_instance
                         THEN [st EXCEPT !.timers = after_cancel(@, job)]
                         ELSE st
         IN [st  |-> [disarmed EXCEPT !.scheduled_prs = Del(@, pr_id)],
             ret |-> TRUE]

cancel_scheduled_pr(st, pr_id) ==
    IF pr_id \notin DOMAIN st.scheduled_prs
    THEN [st |-> st, ret |-> FALSE]
    ELSE LET job      == st.scheduled_prs[pr_id].job
             disarmed == IF HasJob(job) /\ gui_instance
                         THEN [st EXCEPT !.timers = after_cancel(@, job)]
                         ELSE st
         IN [st  |-> save_config([disarmed EXCEPT !.scheduled_prs =
                                      Del(@, pr_id)]),
             ret |-> TRUE]

RescheduleArgsSwapped(d) ==
    [git_repo_path |-> d.git_repo_path, repo |-> d.repo, head |-> d.base,
     base |-> d.head, title |-> d.title, body |-> d.body]

\* the arguments reschedule_pr passes on from pr_details
RescheduleArgs(d) ==
    [git_repo_path |-> d.git_repo_path, repo |-> d.repo, head |-> d.head,
     base |-> d.base, title |-> d.title, body |-> d.body]

\* reschedule_pr that schedules the replacement without cancelling first
reschedule_pr_keeping(st, pr_id, new_datetime, t) ==
    IF pr_id \notin DOMAIN st.scheduled_prs
    THEN [st |-> st, ret |-> FALSE]
    ELSE LET pr_details == st.scheduled_prs[pr_id]
             s == schedule_pr(st, RescheduleArgs(pr_details), new_datetime, t)
         IN [st |-> s.st, ret |-> s.ret # NoId, new_pr_id |-> s.ret]

reschedule_pr(st, pr_id, new_datetime, t) ==
    IF pr_id \notin DOMAIN st.scheduled_prs
    THEN [st |-> st, ret |-> FALSE]
    ELSE LET pr_details == st.scheduled_prs[pr_id]
             c == cancel_scheduled_pr(st, pr_id)
             s == schedule_pr(c.st, RescheduleArgs(pr_details), new_datetime, t)
         IN [st |-> s.st, ret |-> s.ret # NoId, new_pr_id |-> s.ret]

---------------------------------------------------------------------------
(* The state after construction: AppState() defaults, GUI.__init__ has run *)
(* load_config on a machine that has no config file yet.                   *)

\* main.py right after root = tk.Tk(): the window is up, nothing is armed
LegacyInit == [alive |-> TRUE, timers |-> EmptyMap, after_seq |-> 1,
               dialogs |-> <<>>, exit_raised |-> FALSE,
               commands |-> 0, tasks_run |-> <<>>, scheduled |-> 0]

NoOp == [op |-> "init", at |-> 0, id |-> NoId, when |-> 0, req |-> None,
         outcome |-> None, ret |-> FALSE, new_id |-> NoId,
         msgs |-> <<>>, saves |-> 0, calls |-> <<>>]

Init ==
    /\ scheduled_prs = EmptyMap
    /\ next_pr_id = 1
    /\ history = EmptyHistory
    /\ timers = EmptyMap
    /\ after_seq = 1
    /\ config_file = MissingFile
    /\ now = 0
    /\ attempts = [i \in Ids |-> 0]
    /\ issued = <<>>
    /\ cancelled = {}
    /\ last_saved = [valid |-> FALSE, data |-> None]
    /\ form = EmptyForm
    /\ disk_ok = TRUE
    /\ legacy = LegacyInit
    /\ lastOp = NoOp

\* a handler's resulting application state becomes the next state
Commit(st) ==
    /\ scheduled_prs' = st.scheduled_prs
    /\ next_pr_id' = st.next_pr_id
    /\ history' = st.history
    /\ timers' = st.timers
    /\ after_seq' = st.after_seq
    /\ config_file' = st.config_file
    /\ last_saved' = st.last_saved

Op(name, id, when, req, outcome, ret, new_id, st) ==
    [op |-> name, at |-> now, id |-> id, when |-> when, req |-> req,
     outcome |-> outcome, ret |-> ret, new_id |-> new_id,
     msgs |-> st.msgs, saves |-> st.saves, calls |-> st.calls]

---------------------------------------------------------------------------
(* Actions *)

\* time passes; the event loop gives no guarantee on when a due timer runs
Tick ==
    /\ now < MaxTime
    /\ now' = now + 1
    /\ UNCHANGED <<legacy, scheduled_prs, next_pr_id, history, timers, after_seq,
                   config_file, attempts, issued, cancelled, last_saved, form,
                   disk_ok, lastOp>>

\* a call of PRScheduler.schedule_pr
Schedule(req, when) ==
    /\ next_pr_id <= MaxId
    /\ LET r == schedule_pr(St, req, when, now)
       IN /\ Commit(r.st)
          /\ issued' = IF r.ret # NoId THEN Append(issued, r.ret) ELSE issued
          /\ lastOp' = Op("schedule", NoId, when, req, None, r.ret # NoId, r.ret, r.st)
    /\ UNCHANGED <<legacy, now, attempts, cancelled, form, disk_ok>>

\* a call of PRScheduler.cancel_scheduled_pr
Cancel(pr_id) ==
    /\ LET r == cancel_scheduled_pr(St, pr_id)
       IN /\ Commit(r.st)
          /\ cancelled' = IF r.ret /\ attempts[pr_id] = 0
                          THEN cancelled \cup {pr_id} ELSE cancelled
          /\ lastOp' = Op("cancel", pr_id, 0, None, None, r.ret, NoId, r.st)
    /\ UNCHANGED <<legacy, now, attempts, issued, form, disk_ok>>

\* a call of PRScheduler.reschedule_pr
Reschedule(pr_id, when) ==
    /\ next_pr_id <= MaxId
    /\ LET r == reschedule_pr(St, pr_id, when, now)
       IN /\ Commit(r.st)
          /\ issued' = IF r.ret THEN Append(issued, r.new_pr_id) ELSE issued
          /\ cancelled' = IF pr_id \in DOMAIN scheduled_prs /\ attempts[pr_id] = 0
                          THEN cancelled \cup {pr_id} ELSE cancelled
          /\ lastOp' = Op("reschedule", pr_id, when, None, None, r.ret,
                          IF r.ret THEN r.new_pr_id ELSE NoId, r.st)
    /\ UNCHANGED <<legacy, now, attempts, form, disk_ok>>

\* the event loop runs the callback of a due timer: create_scheduled_pr
Fire(h, outcome) ==
    /\ h \in DOMAIN timers
    /\ timers[h].due <= now
    /\ LET tm == timers[h]
           popped == [St EXCEPT !.timers = Expire(@, h)]
       IN \E r \in {create_pr(popped, tm.req, tm.pr_id, outcome)} :
          \E done \in {IF r.ret THEN save_config(r.st) ELSE r.st} :
             /\ Commit(done)
             /\ attempts' = [attempts EXCEPT ![tm.pr_id] = @ + 1]
             /\ lastOp' = Op("fire", tm.pr_id, 0, tm.req, outcome, r.ret,
                             NoId, done)
    /\ UNCHANGED <<legacy, now, issued, cancelled, form, disk_ok>>

Next ==
    \/ Tick
    \/ \E req \in Requests, when \in Times : Schedule(req, when)
    \/ \E pr_id \in Ids : Cancel(pr_id)
    \/ \E pr_id \in Ids, when \in Times : Reschedule(pr_id, when)
    \/ \E h \in DOMAIN timers, outcome \in Outcomes : Fire(h, outcome)

Spec == Init /\ [][Next]_vars

---------------------------------------------------------------------------
(* UIEventHandler: the form and the two primary buttons *)

Whitespace == {" "}

RECURSIVE LStrip(_)
LStrip(s) == IF Len(s) = 0 THEN s
             ELSE IF Head(s) \in Whitespace THEN LStrip(Tail(s)) ELSE s

RECURSIVE RStrip(_)
RStrip(s) == IF Len(s) = 0 THEN s
             ELSE IF SubSeq(s, Len(s), Len(s)) \in Whitespace
                  THEN RStrip(SubSeq(s, 1, Len(s) - 1)) ELSE s

\* str.strip()
Strip(s) == RStrip(LStrip(s))

\* what the user can type into an entry, and into the body text box
FormTexts == {"", " ", "a"}
BodyTexts == {"", " b "}

RequiredEntries == {"entry_repo_path", "entry_repo", "entry_fork_user",
                    "entry_fork_branch", "entry_base", "entry_title"}

_get_input_values(entries) ==
    [git_repo_path |-> entries.entry_repo_path,
     repo  |-> entries.entry_repo,
     head  |-> entries.entry_fork_user \o ":" \o entries.entry_fork_branch,
     base  |-> entries.entry_base,
     title |-> entries.entry_title,
     body  |-> Strip(entries.entry_body)]

\* dict.get(key, default)
Get(inputs, key, default) ==
    IF key \in DOMAIN inputs THEN inputs[key] ELSE default

\* the required_fields dict of validate_inputs, in its order
RequiredFields(inputs) ==
    << <<"Local Git Repo",    Get(inputs, "repo_path", "")>>,
       <<"Origin Repository", Get(inputs, "repo", "")>>,
       <<"Forked Username",   Get(inputs, "username", "")>>,
       <<"Forked Branch",     Get(inputs, "branch", "")>>,
       <<"Base Branch",       Get(inputs, "base", "")>>,
       <<"PR Title",          Get(inputs, "title", "")>> >>

IsBlankUnstripped(value) == value = ""

\* not value.strip()
IsBlank(value) == Strip(value) = ""

IsMissing(pair) == IsBlank(pair[2])

Labels(pairs) == [i \in 1..Len(pairs) |-> pairs[i][1]]

Missing(inputs) == Labels(SelectSeq(RequiredFields(inputs), IsMissing))

validate_inputs(st, inputs) ==
    IF Missing(inputs) # <<>>
    THEN [st  |-> [st EXCEPT !.msgs = Append(@, Msg("showerror",
                                   "Validation Error", Missing(inputs)))],
          ret |-> FALSE]
    ELSE [st |-> st, ret |-> TRUE]

_update_input_history(st, entries) ==
    LET h1 == update_history(st, "repos", entries.entry_repo)
        h2 == update_history(h1, "usernames", entries.entry_fork_user)
        h3 == update_history(h2, "branches", entries.entry_fork_branch)
    IN update_history(h3, "titles", entries.entry_title)

create_pr_now(st, entries, outcome) ==
    LET inputs == _get_input_values(entries)
        v == validate_inputs(st, inputs)
    IN IF ~v.ret THEN [st |-> v.st, called |-> FALSE]
       ELSE [st |-> create_pr(_update_input_history(v.st, entries), inputs,
                              DefaultPrId, outcome).st,
             called |-> TRUE]

\* UIEventHandler.schedule_pr: the calendar and the spin boxes give the time
schedule_pr_clicked(st, entries, schedule_datetime, t) ==
    LET inputs == _get_input_values(entries)
        v == validate_inputs(st, inputs)
    IN IF ~v.ret THEN [st |-> v.st, ret |-> NoId]
       ELSE schedule_pr(_update_input_history(v.st, entries), inputs,
                        schedule_datetime, t)

\* the user types into an entry or into the body text box
EditField(field, text) ==
    /\ form[field] # text
    /\ form' = [form EXCEPT ![field] = text]
    /\ lastOp' = [NoOp EXCEPT !.op = "edit", !.at = now]
    /\ UNCHANGED <<legacy, scheduled_prs, next_pr_id, history, timers, after_seq,
                   config_file, now, attempts, issued, cancelled, last_saved,
                   disk_ok>>

\* the "Create PR Now" button
CreatePrNow(outcome) ==
    /\ LET r == create_pr_now(St, form, outcome)
       IN /\ Commit(r.st)
          /\ lastOp' = Op("create_pr_now", NoId, 0, _get_input_values(form),
                          IF r.called THEN outcome ELSE None,
                          r.called, NoId, r.st)
    /\ UNCHANGED <<legacy, now, attempts, issued, cancelled, form, disk_ok>>

\* the "Schedule PR" button
SchedulePrClicked(when) ==
    /\ next_pr_id <= MaxId
    /\ LET r == schedule_pr_clicked(St, form, when, now)
       IN /\ Commit(r.st)
          /\ issued' = IF r.ret # NoId THEN Append(issued, r.ret) ELSE issued
          /\ lastOp' = Op("schedule_pr_clicked", NoId, when,
                          _get_input_values(form), None, r.ret # NoId,
                          r.ret, r.st)
    /\ UNCHANGED <<legacy, now, attempts, cancelled, form, disk_ok>>

\* a call of PRManager.create_pr that passes no pr_id, as create_pr_now
\* makes it
CreatePr(req, outcome) ==
    /\ LET r == create_pr(St, req, DefaultPrId, outcome)
       IN /\ Commit(r.st)
          /\ lastOp' = Op("create_pr", NoId, 0, req, outcome, r.ret, NoId, r.st)
    /\ UNCHANGED <<legacy, now, attempts, issued, cancelled, form, disk_ok>>

\* create_pr is reached, and the environment decides its outcome, only when
\* the form passes validate_inputs
OutcomesFor(f) ==
    IF validate_inputs(St, _get_input_values(f)).ret THEN Outcomes ELSE {None}

\* The form and its buttons, next to calls of the scheduler that leave
\* records pending while the buttons are used.
NextUI ==
    \/ \E field \in RequiredEntries, text \in FormTexts : EditField(field, text)
    \/ \E text \in BodyTexts : EditField("entry_body", text)
    \/ \E outcome \in OutcomesFor(form) : CreatePrNow(outcome)
    \/ \E when \in Times : SchedulePrClicked(when)
    \/ \E req \in Requests, when \in Times :
          next_pr_id <= MaxUiId /\ Schedule(req, when)

SpecUI == Init /\ [][NextUI]_vars

\* Creating at once while records are pending: the scheduler calls, the
\* "Create PR Now" button with any title typed, and direct creation calls.
NextNow ==
    \/ \E req \in Requests, when \in Times : Schedule(req, when)
    \/ \E pr_id \in Ids : Cancel(pr_id)
    \/ \E text \in FormTexts : EditField("entry_title", text)
    \/ \E outcome \in OutcomesFor(form) : CreatePrNow(outcome)
    \/ \E req \in Requests, outcome \in Outcomes : CreatePr(req, outcome)

SpecNow == Init /\ [][NextNow]_vars

---------------------------------------------------------------------------
(* Saving, leaving and starting again *)

HistoryInputs == {"", "org/a"}

\* a call of ConfigManager.update_history
UpdateHistory(field, value) ==
    /\ LET st == update_history(St, field, value)
       IN /\ Commit(st)
          /\ lastOp' = Op("update_history", NoId, 0, None, None,
                          st.saves > 0, NoId, st)
    /\ UNCHANGED <<legacy, now, attempts, issued, cancelled, form, disk_ok>>

\* the file system starts or stops refusing to open CONFIG_FILE
DiskChange ==
    /\ disk_ok' = ~disk_ok
    /\ lastOp' = [NoOp EXCEPT !.op = "disk", !.at = now]
    /\ UNCHANGED <<legacy, scheduled_prs, next_pr_id, history, timers, after_seq,
                   config_file, now, attempts, issued, cancelled, last_saved,
                   form>>

\* The process ends and is started again: AppState() defaults, an empty
\* timer queue, then GUI.__init__ runs load_config on the file left behind.
Restart ==
    /\ LET fresh == [St EXCEPT !.scheduled_prs = EmptyMap,
                               !.next_pr_id = 1,
                               !.history = EmptyHistory,
                               !.timers = EmptyMap,
                               !.after_seq = 1]
           st == load_config(fresh)
       IN /\ Commit(st)
          /\ lastOp' = Op("restart", NoId, 0, None, None,
                          st.msgs = <<>>, NoId, st)
    /\ attempts' = [i \in Ids |-> 0]
    /\ issued' = <<>>
    /\ cancelled' = {}
    /\ form' = EmptyForm
    /\ UNCHANGED <<legacy, now, disk_ok>>

NextRestart ==
    \/ \E req \in Requests, when \in Times : Schedule(req, when)
    \/ \E pr_id \in Ids : Cancel(pr_id)
    \/ \E pr_id \in Ids, when \in Times : Reschedule(pr_id, when)
    \/ \E field \in HistoryFields, value \in HistoryInputs :
          UpdateHistory(field, value)
    \/ Restart

SpecRestart == Init /\ [][NextRestart]_vars

\* Restarts over a config file that may be absent, refused by the disk or
\* cut short by a failed save
NextLoad ==
    \/ \E req \in Requests, when \in Times :
          next_pr_id <= MaxSaveId /\ Schedule(req, when)
    \/ \E pr_id \in Ids : Cancel(pr_id)
    \/ \E value \in HistoryInputs : UpdateHistory("repos", value)
    \/ DiskChange
    \/ Restart

SpecLoad == Init /\ [][NextLoad]_vars

---------------------------------------------------------------------------
(* Saving under a disk that may refuse to be written *)

\* the title typed on the way to a schedule or create call
SaveTitles == {"", "Fix bug"}

NextSave ==
    \/ Tick
    \/ \E req \in Requests, when \in Times :
          next_pr_id <= MaxSaveId /\ Schedule(req, when)
    \/ \E pr_id \in Ids : Cancel(pr_id)
    \/ \E pr_id \in Ids, when \in Times :
          next_pr_id <= MaxSaveId /\ Reschedule(pr_id, when)
    \/ \E h \in DOMAIN timers, outcome \in Outcomes : Fire(h, outcome)
    \/ \E value \in SaveTitles : UpdateHistory("titles", value)
    \/ DiskChange

SpecSave == Init /\ [][NextSave]_vars

\* Every operation that can run while records are pending: the scheduler's
\* calls, timers firing, immediate creation and history updates
NextFrame ==
    \/ Tick
    \/ \E req \in Requests, when \in Times :
          next_pr_id <= MaxSaveId /\ Schedule(req, when)
    \/ \E pr_id \in Ids : Cancel(pr_id)
    \/ \E pr_id \in Ids, when \in Times :
          next_pr_id <= MaxSaveId /\ Reschedule(pr_id, when)
    \/ \E h \in DOMAIN timers, outcome \in Outcomes : Fire(h, outcome)
    \/ \E outcome \in OutcomesFor(form) : CreatePrNow(outcome)
    \/ \E req \in Requests, outcome \in Outcomes : CreatePr(req, outcome)
    \/ \E value \in SaveTitles : UpdateHistory("titles", value)

SpecFrame == Init /\ [][NextFrame]_vars

---------------------------------------------------------------------------
(* Progress: the process stays alive, the clock advances and mainloop runs *)
(* the callback of every timer that is due.                                *)

\* mainloop: some timer that is due has its callback run
RunDueTimer == \E h \in DOMAIN timers, outcome \in Outcomes : Fire(h, outcome)

NextLive ==
    \/ Tick
    \/ \E req \in Requests, when \in Times :
          next_pr_id <= MaxLiveId /\ Schedule(req, when)
    \/ \E pr_id \in Ids : Cancel(pr_id)
    \/ \E pr_id \in Ids, when \in Times :
          next_pr_id <= MaxLiveId /\ Reschedule(pr_id, when)
    \/ RunDueTimer

SpecLive ==
    /\ Init /\ [][NextLive]_vars
    /\ WF_vars(Tick)
    /\ WF_vars(RunDueTimer)

---------------------------------------------------------------------------
(* The history lists on their own.  A run may start from lists that earlier *)
(* update_history calls have filled: Filled(n) is the state after the       *)
(* values V(1), ..., V(n) were entered, in that order, into every field.    *)

V(i) == "v" \o ToString(i)

FillLevels == {0, MAX_HISTORY_ENTRIES - 1, MAX_HISTORY_ENTRIES}

\* the values later calls pass: none, the oldest value entered, a new one
HistoryValues == {"", V(1), "x"}

FreshSt == [scheduled_prs |-> EmptyMap, next_pr_id |-> 1,
            history |-> EmptyHistory, timers |-> EmptyMap, after_seq |-> 1,
            config_file |-> MissingFile,
            last_saved |-> [valid |-> FALSE, data |-> None],
            disk_ok |-> TRUE, msgs |-> <<>>, saves |-> 0, calls |-> <<>>]

\* one value entered into every field, as _update_input_history does
FillAll(st, value) ==
    LET a == update_history(st, "repos", value)
        b == update_history(a, "usernames", value)
        c == update_history(b, "branches", value)
    IN update_history(c, "titles", value)

RECURSIVE Filled(_)
Filled(n) ==
    IF n = 0 THEN FreshSt
    ELSE CHOOSE st \in {FillAll(prev, V(n)) : prev \in {Filled(n - 1)}} : TRUE

InitHistory ==
    \E n \in FillLevels :
        LET st == Filled(n)
        IN /\ scheduled_prs = st.scheduled_prs
           /\ next_pr_id = st.next_pr_id
           /\ history = st.history
           /\ timers = st.timers
           /\ after_seq = st.after_seq
           /\ config_file = st.config_file
           /\ last_saved = st.last_saved
           /\ now = 0
           /\ attempts = [i \in Ids |-> 0]
           /\ issued = <<>>
           /\ cancelled = {}
           /\ form = EmptyForm
           /\ disk_ok = TRUE
           /\ legacy = LegacyInit
           /\ lastOp = NoOp

NextHistory ==
    \E field \in HistoryFields, value \in HistoryValues :
        UpdateHistory(field, value)

SpecHistory == InitHistory /\ [][NextHistory]_vars

---------------------------------------------------------------------------
(* The legacy script main.py: one window, a Run Now and a Schedule button.  *)
(* messagebox.showinfo and showerror return only when the user closes the  *)
(* dialog; until then Tk runs a nested event loop in which due timers still *)
(* fire, while the buttons of the window behind the dialog are blocked.     *)
(* legacy.dialogs is the stack of open dialogs, each with what its caller   *)
(* does once the call returns.                                              *)

LegacyOutcomes == {"success", "remote_failure", "invalid_path", "exception"}

OpenDialog(p, then, ms) == [p EXCEPT !.dialogs = Append(@, [then |-> then, ms |-> ms])]

\* root.after(ms, callback) of main.py
legacy_after(p, ms, t, kind) ==
    [p EXCEPT !.timers = Put(@, Handle(p.after_seq),
                             [due |-> t + ms * TicksPerMs, kind |-> kind,
                              task |-> p.scheduled]),
              !.after_seq = @ + 1]

\* SystemExit raised in a callback ends mainloop, and with it the process,
\* as soon as control is back in mainloop; a nested event loop goes on.
sys_exit(p) ==
    IF p.dialogs = <<>> THEN [p EXCEPT !.alive = FALSE]
    ELSE [p EXCEPT !.exit_raised = TRUE]

\* control returns from a callback to the event loop that ran it
CallbackReturns(p) ==
    IF p.dialogs = <<>> /\ p.exit_raised THEN [p EXCEPT !.alive = FALSE] ELSE p

\* create_pr of main.py up to its messagebox call: only FileNotFoundError of
\* os.chdir is caught; any other exception leaves the callback uncaught,
\* before the command has run.
legacy_create_pr(p, outcome) ==
    IF outcome = "invalid_path" THEN OpenDialog(p, "return", 0)
    ELSE IF outcome = "exception" THEN p
    ELSE OpenDialog([p EXCEPT !.commands = @ + 1], "sys_exit", 0)

\* schedule_task up to its messagebox call
schedule_task(p, schedule_datetime, t) ==
    LET delay == schedule_datetime - t
    IN IF delay > 0
       THEN OpenDialog(legacy_after([p EXCEPT !.scheduled = @ + 1],
                                    DelayMs(delay), t, "task"),
                       "arm_exit", DelayMs(delay))
       ELSE p

\* the "Schedule" button
ScheduleTaskGui(when) ==
    /\ legacy.alive /\ legacy.dialogs = <<>>
    /\ legacy.scheduled < MaxTasks
    /\ legacy' = schedule_task(legacy, when, now)
    /\ lastOp' = [NoOp EXCEPT !.op = "schedule_task", !.at = now,
                              !.when = when,
                              !.ret = (legacy'.timers # legacy.timers)]
    /\ UNCHANGED <<scheduled_prs, next_pr_id, history, timers, after_seq,
                   config_file, now, attempts, issued, cancelled, last_saved,
                   form, disk_ok>>

\* the "Run Now" button
RunNow(outcome) ==
    /\ legacy.alive /\ legacy.dialogs = <<>>
    /\ legacy' = CallbackReturns(legacy_create_pr(legacy, outcome))
    /\ lastOp' = [NoOp EXCEPT !.op = "run_now", !.at = now,
                              !.outcome = outcome]
    /\ UNCHANGED <<scheduled_prs, next_pr_id, history, timers, after_seq,
                   config_file, now, attempts, issued, cancelled, last_saved,
                   form, disk_ok>>

\* a due timer armed at line 49 runs task()
FireTask(h, outcome) ==
    /\ legacy.alive
    /\ h \in DOMAIN legacy.timers
    /\ legacy.timers[h].kind = "task"
    /\ legacy.timers[h].due <= now
    /\ LET popped == [legacy EXCEPT !.timers = Expire(@, h),
                                    !.tasks_run = Append(@, legacy.timers[h].task)]
       IN legacy' = CallbackReturns(legacy_create_pr(popped, outcome))
    /\ lastOp' = [NoOp EXCEPT !.op = "fire_task", !.at = now,
                              !.id = legacy.timers[h].task,
                              !.outcome = outcome]
    /\ UNCHANGED <<scheduled_prs, next_pr_id, history, timers, after_seq,
                   config_file, now, attempts, issued, cancelled, last_saved,
                   form, disk_ok>>

\* a due timer armed at line 51 runs sys.exit
FireExit(h) ==
    /\ legacy.alive
    /\ h \in DOMAIN legacy.timers
    /\ legacy.timers[h].kind = "exit"
    /\ legacy.timers[h].due <= now
    /\ legacy' = sys_exit([legacy EXCEPT !.timers = Expire(@, h)])
    /\ lastOp' = [NoOp EXCEPT !.op = "fire_exit", !.at = now,
                              !.id = legacy.timers[h].task]
    /\ UNCHANGED <<scheduled_prs, next_pr_id, history, timers, after_seq,
                   config_file, now, attempts, issued, cancelled, last_saved,
                   form, disk_ok>>

\* the user closes the dialog on top; the call that opened it returns and
\* its caller goes on: line 51 after line 50, line 40 after lines 36 and 38,
\* line 21 after line 20
Dismiss ==
    /\ legacy.alive /\ legacy.dialogs # <<>>
    /\ LET top    == legacy.dialogs[Len(legacy.dialogs)]
           closed == [legacy EXCEPT !.dialogs = SubSeq(@, 1, Len(@) - 1)]
           after_call ==
               IF top.then = "arm_exit" THEN legacy_after(closed, top.ms, now, "exit")
               ELSE IF top.then = "sys_exit" THEN sys_exit(closed)
               ELSE closed
       IN /\ legacy' = CallbackReturns(after_call)
          /\ lastOp' = [NoOp EXCEPT !.op = "dismiss", !.at = now,
                                    !.ret = ~legacy'.alive]
    /\ UNCHANGED <<scheduled_prs, next_pr_id, history, timers, after_seq,
                   config_file, now, attempts, issued, cancelled, last_saved,
                   form, disk_ok>>

NextMain ==
    \/ Tick
    \/ \E when \in Times : ScheduleTaskGui(when)
    \/ \E outcome \in LegacyOutcomes : RunNow(outcome)
    \/ \E h \in DOMAIN legacy.timers, outcome \in LegacyOutcomes :
          FireTask(h, outcome)
    \/ \E h \in DOMAIN legacy.timers : FireExit(h)
    \/ Dismiss

SpecMain == Init /\ [][NextMain]_vars

---------------------------------------------------------------------------
(* Properties of the scheduler, checked under Spec *)

Pending == DOMAIN scheduled_prs

Armed(pr_id) == {h \in DOMAIN timers : timers[h].pr_id = pr_id}

SameFields(d, e) ==
    /\ d.repo = e.repo /\ d.head = e.head /\ d.base = e.base
    /\ d.title = e.title /\ d.body = e.body
    /\ d.git_repo_path = e.git_repo_path

\* C1: when the timer of a pending record has fired and the creation attempt
\* has completed, the record is absent from the registry, whatever the
\* outcome of the attempt was.
C1_FiredRecordRemoved ==
    lastOp.op = "fire" => lastOp.id \notin Pending

\* C2: reschedule of a pending id to a time that is not after the current
\* time fails and leaves the entry as it was: same record, timer still armed.
C2_FailedRescheduleKeepsEntry ==
    [][\A pr_id \in Ids, when \in Times :
          (Reschedule(pr_id, when) /\ pr_id \in Pending /\ when <= now)
          => /\ ~lastOp'.ret
             /\ pr_id \in DOMAIN scheduled_prs'
             /\ scheduled_prs'[pr_id] = scheduled_prs[pr_id]
             /\ timers' = timers]_vars

\* C3: an id whose cancel succeeded before its timer fired never has a pull
\* request creation attempted for it: no attempt was made, and no timer is
\* left that could make one.
C3_CancelledNeverAttempted ==
    \A pr_id \in cancelled : attempts[pr_id] = 0 /\ Armed(pr_id) = {}

C3_Witness ==
    \E pr_id \in cancelled :
        /\ lastOp.op = "fire" /\ lastOp.id # pr_id
        /\ attempts[pr_id] = 0
        /\ now = MaxTime

\* C4: the ids returned by successful schedule calls are strictly increasing
\* in the order they were issued, so none is issued twice, also after its
\* record has been deleted.
C4_IdsStrictlyIncreasing ==
    \A i, j \in 1..Len(issued) : i < j => issued[i] < issued[j]

C4_Witness ==
    /\ Len(issued) >= 2
    /\ lastOp.op = "schedule" /\ lastOp.ret
    /\ \E i \in 1..Len(issued) : issued[i] \notin Pending

\* C5: schedule with when <= now returns no id and leaves the registry, the
\* next-id counter and the armed timers unchanged; with when > now it returns
\* a new id under which the registry holds the request's fields and when.
C5_ScheduleNeedsFuture ==
    [][\A req \in Requests, when \in Times :
          Schedule(req, when)
          => IF when <= now
             THEN /\ lastOp'.new_id = NoId
                  /\ UNCHANGED <<legacy, scheduled_prs, next_pr_id, timers>>
             ELSE /\ lastOp'.new_id # NoId
                  /\ lastOp'.new_id \notin Pending
                  /\ \A i \in 1..Len(issued) : issued[i] # lastOp'.new_id
                  /\ lastOp'.new_id \in DOMAIN scheduled_prs'
                  /\ SameFields(scheduled_prs'[lastOp'.new_id], req)
                  /\ scheduled_prs'[lastOp'.new_id].time = when]_vars

C5_Witness ==
    /\ lastOp.op = "schedule" /\ ~lastOp.ret
    /\ lastOp.when = lastOp.at
    /\ Pending # {}

\* C6: a successful cancel removes the id, which never comes back, so a
\* following cancel of it returns false; cancel of an absent id returns false
\* and changes neither the registry, the next-id counter nor any timer.
C6_CancelRemovesOnce ==
    [][/\ \A pr_id \in Ids :
             Cancel(pr_id)
             => IF pr_id \in Pending
                THEN lastOp'.ret /\ pr_id \notin DOMAIN scheduled_prs'
                ELSE /\ ~lastOp'.ret
                     /\ UNCHANGED <<legacy, scheduled_prs, next_pr_id, timers>>
       /\ \A pr_id \in Ids :
             (pr_id < next_pr_id /\ pr_id \notin Pending)
             => pr_id \notin DOMAIN scheduled_prs']_vars

C6_Witness ==
    /\ lastOp.op = "cancel" /\ ~lastOp.ret
    /\ lastOp.id \in cancelled

\* C7: reschedule of a pending id to a future time leaves the id absent and
\* adds exactly one record, under a new id, with the old record's repository,
\* head, base, title, body and local path and with the new time.
C7_RescheduleReplaces ==
    [][\A pr_id \in Ids, when \in Times :
          (Reschedule(pr_id, when) /\ pr_id \in Pending /\ when > now)
          => /\ lastOp'.ret
             /\ pr_id \notin DOMAIN scheduled_prs'
             /\ DOMAIN scheduled_prs' \ Pending = {lastOp'.new_id}
             /\ lastOp'.new_id # pr_id
             /\ SameFields(scheduled_prs'[lastOp'.new_id], scheduled_prs[pr_id])
             /\ scheduled_prs'[lastOp'.new_id].time = when
             /\ \A k \in Pending \ {pr_id} :
                    k \in DOMAIN scheduled_prs'
                    /\ scheduled_prs'[k] = scheduled_prs[k]]_vars

C7_Witness ==
    /\ lastOp.op = "reschedule" /\ lastOp.ret
    /\ lastOp.new_id \in Pending
    /\ lastOp.id \notin Pending
    /\ Cardinality(Pending) >= 2

---------------------------------------------------------------------------
(* Properties of the config file, checked under SpecRestart *)

\* C8: save followed by load reproduces what was saved: the same records
\* under the same ids, the same next-id counter and the same history lists.
C8_SaveLoadRoundTrip ==
    (lastOp.op = "restart" /\ last_saved.valid)
    => /\ DOMAIN scheduled_prs = DOMAIN last_saved.data.scheduled_prs
       /\ scheduled_prs = last_saved.data.scheduled_prs
       /\ next_pr_id = last_saved.data.next_pr_id
       /\ history = last_saved.data.history

\* C17: in every reachable state each record in the registry has at most one
\* armed (not yet fired, not cancelled) timer; after a reschedule the timer of
\* the old id is disarmed and only the replacement record's timer is armed.
C17_OneArmedTimer ==
    /\ \A pr_id \in Pending : Cardinality(Armed(pr_id)) <= 1
    /\ (lastOp.op = "reschedule" /\ lastOp.ret)
       => /\ Armed(lastOp.id) = {}
          /\ Cardinality(Armed(lastOp.new_id)) = 1
          /\ scheduled_prs[lastOp.new_id].job \in Armed(lastOp.new_id)

C17_Witness ==
    /\ lastOp.op = "reschedule" /\ lastOp.ret
    /\ Armed(lastOp.id) = {}
    /\ Cardinality(Armed(lastOp.new_id)) = 1
    /\ Cardinality(Pending) = 2
    /\ Cardinality(DOMAIN timers) = 2

\* C18: a record leaves the registry, or changes, only in a step that is the
\* cancel of its id, the reschedule of its id or the firing of its own timer;
\* schedule, createNow, history updates and operations or firings on other
\* ids leave every other record with its fields and scheduled time unchanged.
C18_OnlyOwnOperationsRemove ==
    [][\A pr_id \in Pending :
          (pr_id \notin DOMAIN scheduled_prs'
              \/ scheduled_prs'[pr_id] # scheduled_prs[pr_id])
          => /\ lastOp'.op \in {"cancel", "reschedule", "fire"}
             /\ lastOp'.id = pr_id
             /\ lastOp'.op = "fire"
                => scheduled_prs[pr_id].job \in DOMAIN timers \ DOMAIN timers']_vars

C18_Witness ==
    /\ lastOp.op = "fire" /\ lastOp.ret
    /\ lastOp.id \notin Pending
    /\ Pending # {} /\ \A pr_id \in Pending : pr_id < lastOp.id
    /\ \E pr_id \in Pending : Armed(pr_id) # {}

\* C19: for every id the creation is attempted at most once during a run: a
\* failed attempt leaves no armed timer behind for its id, and no sequence of
\* schedule, cancel and reschedule calls makes the timer of one id fire twice.
C19_AttemptedAtMostOnce ==
    /\ \A pr_id \in Ids : attempts[pr_id] <= 1
    /\ \A pr_id \in Ids : attempts[pr_id] = 1 => Armed(pr_id) = {}

C19_Witness ==
    /\ lastOp.op = "fire" /\ ~lastOp.ret /\ lastOp.outcome = "remote_failure"
    /\ lastOp.id \in Pending
    /\ attempts[lastOp.id] = 1
    /\ cancelled # {}
    /\ now = MaxTime

\* C20: while the process stays alive and the event loop keeps running due
\* timers, every record that was scheduled successfully and is never
\* cancelled or rescheduled eventually has its creation attempted.
C20_ScheduledEventuallyAttempted ==
    \A pr_id \in Ids :
        (pr_id \in Pending /\ attempts[pr_id] = 0)
            ~> (attempts[pr_id] >= 1 \/ pr_id \in cancelled)

C20_Witness ==
    /\ lastOp.op = "fire"
    /\ attempts[lastOp.id] = 1
    /\ lastOp.id \notin cancelled
    /\ \E i \in 1..Len(issued) : issued[i] = lastOp.id
    /\ scheduled_prs # EmptyMap /\ cancelled # {}

\* C21: the creation of a scheduled record is never attempted while the
\* current time is before the record's scheduled time.
C21_NeverBeforeScheduledTime ==
    [][\A pr_id \in Pending :
          attempts'[pr_id] > attempts[pr_id]
          => now >= scheduled_prs[pr_id].time]_vars

\* C22: the external pull-request command is invoked only when, at the
\* moment of creation, the local path exists and contains .git; otherwise a
\* repository error is reported, no external command runs and the attempt
\* returns failure.  This holds for createNow and for a timer firing.
C22_CommandNeedsRepository ==
    \A i \in 1..Len(lastOp.calls) :
        LET c == lastOp.calls[i]
            path_ok == c.outcome \notin {"invalid_path", "no_git"}
        IN /\ c.gh => path_ok
           /\ ~path_ok
              => /\ ~c.gh
                 /\ ~lastOp.ret
                 /\ \E j \in 1..Len(lastOp.msgs) :
                       /\ lastOp.msgs[j].kind = "showerror"
                       /\ lastOp.msgs[j].title = "Repository Error"
                 /\ lastOp.op = "fire" => lastOp.id \in Pending

C22_Witness ==
    /\ lastOp.op = "fire" /\ lastOp.outcome = "no_git"
    /\ Len(lastOp.calls) = 1 /\ ~lastOp.calls[1].gh
    /\ lastOp.saves = 0
    /\ Cardinality(Pending) = 2

\* C23: in a run that starts with an empty registry and next-id counter 1,
\* every id in the registry is at least 1 and less than the counter; the
\* counter never decreases, grows by exactly 1 on each successful schedule or
\* reschedule, and is unchanged by every other step (cancel, firing,
\* createNow, failed schedule or reschedule).
C23_IdsBelowCounter ==
    [][/\ \A pr_id \in DOMAIN scheduled_prs' :
             1 <= pr_id /\ pr_id < next_pr_id'
       /\ next_pr_id' >= next_pr_id
       /\ IF /\ now' = now
             /\ lastOp'.op \in {"schedule", "reschedule"}
             /\ lastOp'.ret
          THEN next_pr_id' = next_pr_id + 1
          ELSE next_pr_id' = next_pr_id]_vars

C23_Witness ==
    /\ lastOp.op = "reschedule" /\ lastOp.ret
    /\ lastOp.id \in cancelled
    /\ lastOp.new_id = 2 /\ next_pr_id = 3
    /\ Pending = {2}

\* C24: no orphan timers: each armed timer belongs to an id that is in the
\* registry, and the handle stored in that record is the handle of that
\* timer; so a timer never fires for an id that cancel, reschedule or an
\* earlier firing has removed.
C24_NoOrphanTimers ==
    /\ \A h \in DOMAIN timers :
          /\ timers[h].pr_id \in Pending
          /\ scheduled_prs[timers[h].pr_id].job = h
    /\ lastOp.op = "fire"
       => lastOp.id \notin cancelled /\ attempts[lastOp.id] = 1

C24_Witness ==
    /\ lastOp.op = "fire" /\ lastOp.ret
    /\ cancelled # {}
    /\ Cardinality(DOMAIN timers) = 1
    /\ Cardinality(Pending) = 1

\* C25: in main.py at most one external pull-request command runs per
\* process: the process exits once the first creation command has completed,
\* so of several scheduled tasks at most one is ever attempted; schedule_task
\* with a time not in the future arms no timer and attempts nothing.
C25_OneCommandPerProcess ==
    /\ legacy.commands <= 1
    /\ legacy.commands = 1 => Len(legacy.tasks_run) <= 1
    /\ (lastOp.op = "schedule_task" /\ lastOp.when <= lastOp.at) => ~lastOp.ret

\* C16: load never raises; when the config file is missing, unreadable or
\* not parseable, the registry is empty, the next-id counter is 1 and the
\* four history lists are empty after load returns.
C16_LoadFailsSoft ==
    (lastOp.op = "restart" /\ (config_file.kind # "json" \/ ~disk_ok))
    => /\ scheduled_prs = EmptyMap
       /\ next_pr_id = 1
       /\ history = EmptyHistory
       /\ ~lastOp.ret <=> config_file.kind # "missing"

C16_Witness ==
    /\ lastOp.op = "restart"
    /\ config_file.kind = "partial"
    /\ last_saved.valid /\ last_saved.data.next_pr_id > 1
    /\ Len(lastOp.msgs) = 1

---------------------------------------------------------------------------
(* Properties of the form handlers, checked under SpecUI *)

FormLabels ==
    [entry_repo_path |-> "Local Git Repo", entry_repo |-> "Origin Repository",
     entry_fork_user |-> "Forked Username", entry_fork_branch |-> "Forked Branch",
     entry_base |-> "Base Branch", entry_title |-> "PR Title"]

BlankFields(entries) == {f \in DOMAIN FormLabels : Strip(entries[f]) = ""}

IsValidationError(m) == m.title = "Validation Error"

\* C9: createNow on a form whose six required fields are all non-blank
\* passes validation and calls the pull-request creator exactly once with
\* the values of the form.
C9_FilledFormCreatesOnce ==
    (lastOp.op = "create_pr_now" /\ BlankFields(form) = {})
    => /\ SelectSeq(lastOp.msgs, IsValidationError) = <<>>
       /\ Len(lastOp.calls) = 1
       /\ lastOp.calls[1].req = _get_input_values(form)

\* C10: createNow on a form with a blank (empty or whitespace-only) required
\* field shows exactly one validation error, which names every blank
\* required field, and makes no creation call.
C10_BlankFieldsReported ==
    (lastOp.op = "create_pr_now" /\ BlankFields(form) # {})
    => /\ Len(lastOp.msgs) = 1
       /\ lastOp.msgs[1].kind = "showerror"
       /\ lastOp.msgs[1].title = "Validation Error"
       /\ \A f \in BlankFields(form) :
              InList(FormLabels[f], lastOp.msgs[1].fields)
       /\ lastOp.calls = <<>>

C10_Witness ==
    /\ lastOp.op = "create_pr_now"
    /\ form.entry_title = " "
    /\ form.entry_base = "a"
    /\ InList("PR Title", lastOp.msgs[1].fields)
    /\ ~InList("Base Branch", lastOp.msgs[1].fields)
    /\ Pending # {}

\* C11: createNow changes neither the registry, the next-id counter nor any
\* armed timer, whether validation fails or the creation call succeeds or
\* fails, whatever records are pending.  (Every action of SpecNow writes its
\* own name to lastOp, so lastOp' tells which handler made the step.)
C11_CreateNowLeavesRegistry ==
    [][lastOp'.op \in {"create_pr_now", "create_pr"}
       => UNCHANGED <<legacy, scheduled_prs, next_pr_id, timers>>]_vars

C11_Witness ==
    /\ lastOp.op = "create_pr" /\ lastOp.outcome = "success" /\ lastOp.ret
    /\ Cardinality(Pending) >= 2 /\ timers # EmptyMap

---------------------------------------------------------------------------
(* Properties of the history lists, checked under SpecHistory *)

NoDuplicates(lst) == \A i, j \in 1..Len(lst) : i # j => lst[i] # lst[j]

\* C12: after any sequence of update_history calls, each of the four history
\* lists holds at most 10 entries and no value twice.
C12_HistoryBounded ==
    \A f \in HistoryFields :
        Len(history[f]) <= MAX_HISTORY_ENTRIES /\ NoDuplicates(history[f])

C12_Witness ==
    /\ lastOp.op = "update_history" /\ lastOp.ret
    /\ \E f \in HistoryFields :
          /\ Len(history[f]) = MAX_HISTORY_ENTRIES
          /\ history[f][1] = "x"
          /\ ~InList(V(1), history[f])

\* C13: after update_history(field, v) with a non-empty v, v is the first
\* entry of the field's list, also when v was in the list already.
C13_MostRecentFirst ==
    [][\A f \in HistoryFields, v \in HistoryValues :
          (UpdateHistory(f, v) /\ v # "")
          => (history'[f] # <<>> /\ history'[f][1] = v)]_vars

---------------------------------------------------------------------------
(* Properties of saving, checked under SpecSave *)

\* C14: every operation that changes the registry or a history list calls
\* save_config on the whole state after the change, before it returns.
C14_SavedAfterChange ==
    [][(scheduled_prs' # scheduled_prs \/ history' # history)
       => /\ lastOp'.saves >= 1
          /\ last_saved'.valid
          /\ last_saved'.data = [scheduled_prs |-> scheduled_prs',
                                 next_pr_id    |-> next_pr_id',
                                 history       |-> history']]_vars

C14_Witness ==
    /\ lastOp.op = "fire" /\ lastOp.ret /\ lastOp.saves = 2
    /\ lastOp.id \notin Pending
    /\ last_saved.data.scheduled_prs = scheduled_prs
    /\ Pending # {}

SaveFailed(op) ==
    \E i \in 1..Len(op.msgs) : op.msgs[i].title = "Save Configuration Error"

====
